---- MODULE Spec2Model ----
(***************************************************************************)
(* A model of the brainfuck optimizer and interpreter of src/src/main.rs:  *)
(* the combiner, the zero-loop pass, arithmetic_loop_pass, the jump linker *)
(* and run.  Indices (i, ip, rp, jump targets) are 0-based as in the Rust  *)
(* source; a TLA+ sequence is 1-based, so instruction k is ins[k + 1].     *)
(***************************************************************************)
EXTENDS Integers, Sequences, FiniteSets, TLC

VARIABLES
    tokens,           \* the token list of the source file, until combined
    instructions,     \* the instruction vector the passes mutate in place
    pc,               \* the stage main()/run() is in
    i,                \* the loop index of the running pass / of the linker
    par_stack,        \* the linker's stack of open JumpZ indices
    warnings,         \* ranges of the infinite-loop warnings printed so far
    ip,               \* run: instruction pointer
    rp,               \* run: register (cell) pointer
    registers,        \* run: the tape, stored sparsely (absent = 0)
    input,            \* the bytes of stdin (fixed for one execution)
    inpos,            \* how many bytes of stdin were consumed
    stdout,           \* the bytes written to stdout
    overflow_checks,  \* build profile: TRUE = debug (overflow panics)
    ref               \* the same run() on the unoptimized, linked IR

vars == <<tokens, instructions, pc, i, par_stack, warnings, ip, rp,
          registers, input, inpos, stdout, overflow_checks, ref>>

(***************************************************************************)
(* Bounds of the model.                                                    *)
(***************************************************************************)
MaxLen == 3        \* every source of at most this many tokens is explored
MaxCells == 3      \* a run is cut once more than this many cells are nonzero
MaxOut == 4        \* a run is cut once more than this many bytes were written
MaxBody == 5       \* loop bodies of at most this many instructions (SpecLoop)
MaxMul == 3        \* multipliers 2..MaxMul besides the extreme ones (SpecMul)

(***************************************************************************)
(* Program constants.                                                      *)
(***************************************************************************)
NUM_REGISTERS == 30000

(***************************************************************************)
(* Integer widths.                                                         *)
(***************************************************************************)
WrapU8(x) == x % 256
WrapU16(x) == x % 65536
WrapI16(x) == ((x + 32768) % 65536) - 32768
FitsI16(x) == x >= -32768 /\ x <= 32767

(***************************************************************************)
(* Tokens and instructions.                                                *)
(***************************************************************************)
Tokens == {"<", ">", "+", "-", ".", ",", "[", "]"}

is_combinable(t) == t \in {"<", ">", "+", "-"}

Shl(n) == [op |-> "Shl", a |-> n, b |-> 0]
Shr(n) == [op |-> "Shr", a |-> n, b |-> 0]
Inc(n) == [op |-> "Inc", a |-> n, b |-> 0]
Dec(n) == [op |-> "Dec", a |-> n, b |-> 0]
Output == [op |-> "Output", a |-> 0, b |-> 0]
Input == [op |-> "Input", a |-> 0, b |-> 0]
JumpZ(t) == [op |-> "JumpZ", a |-> t, b |-> 0]
JumpNz(t) == [op |-> "JumpNz", a |-> t, b |-> 0]
Zero(o) == [op |-> "Zero", a |-> o, b |-> 0]
Add(o) == [op |-> "Add", a |-> o, b |-> 0]
Sub(o) == [op |-> "Sub", a |-> o, b |-> 0]
AddMul(o, n) == [op |-> "AddMul", a |-> o, b |-> n]

(* Faulty variant: the range is taken to include index `to`. *)
SpliceInclusive(ins, from, to, rep) ==
    SubSeq(ins, 1, from) \o rep \o SubSeq(ins, to + 2, Len(ins))

(* Replace ins[from .. to) (0-based, half open) by rep: Vec::splice/drain. *)
Splice(ins, from, to, rep) ==
    SubSeq(ins, 1, from) \o rep \o SubSeq(ins, to + 1, Len(ins))

(***************************************************************************)
(* The combiner: chunk_by(|a, b| a.is_combinable() && a == b), then one    *)
(* instruction per chunk with the chunk length cast to u16 / u8.           *)
(***************************************************************************)
(* Faulty variant: every token is a chunk of its own. *)
ChunkLenOne(toks, p) == 1

(* The length of the chunk that starts at position p: it ends at the first *)
(* position whose successor is missing or differs, or at p itself when the *)
(* token is not combinable.                                                *)
ChunkLen(toks, p) ==
    IF ~is_combinable(toks[p]) THEN 1
    ELSE LET stops == {q \in p..Len(toks) : q = Len(toks) \/ toks[q + 1] # toks[p]}
             last == CHOOSE q \in stops : \A r \in stops : q <= r
         IN  last - p + 1

ChunkInstruction(t, n) ==
    CASE t = "<" -> Shl(WrapU16(n))
      [] t = ">" -> Shr(WrapU16(n))
      [] t = "+" -> Inc(WrapU8(n))
      [] t = "-" -> Dec(WrapU8(n))
      [] t = "." -> Output
      [] t = "," -> Input
      [] t = "[" -> JumpZ(0)
      [] t = "]" -> JumpNz(0)

RECURSIVE CombineFrom(_, _)
CombineFrom(toks, p) ==
    IF p > Len(toks) THEN <<>>
    ELSE LET n == ChunkLen(toks, p)
         IN  <<ChunkInstruction(toks[p], n)>> \o CombineFrom(toks, p + n)

Combine(toks) == CombineFrom(toks, 1)

(***************************************************************************)
(* The zero-loop pass: one iteration of `while i + 3 < instructions.len()`.*)
(***************************************************************************)
ZeroLoopGuard(ins, k) == k + 3 < Len(ins)

IsZeroLoop(ins, k) ==
    /\ ins[k + 1].op = "JumpZ"
    /\ ins[k + 2] = Dec(1)
    /\ ins[k + 3].op = "JumpNz"

ZeroLoopBody(ins, k) ==
    IF IsZeroLoop(ins, k) THEN Splice(ins, k, k + 3, <<Zero(0)>>) ELSE ins

(***************************************************************************)
(* IterationDiff and its methods.                                          *)
(***************************************************************************)
Diff(d) == [kind |-> "Diff", d |-> d]
Zeroed == [kind |-> "Zeroed", d |-> 0]
ZeroedDiff(d) == [kind |-> "ZeroedDiff", d |-> d]

(* Faulty variant: an increment after a zeroing is not recorded. *)
IterIncLost(s, n) ==
    IF s.kind = "Zeroed" THEN Zeroed ELSE [s EXCEPT !.d = WrapI16(@ + n)]

IterInc(s, n) ==
    IF s.kind = "Zeroed" THEN ZeroedDiff(n) ELSE [s EXCEPT !.d = WrapI16(@ + n)]

IterDec(s, n) ==
    IF s.kind = "Zeroed" THEN ZeroedDiff(-n) ELSE [s EXCEPT !.d = WrapI16(@ - n)]

IterZero(s) == Zeroed

(* `*d += inc` / `*d -= dec` overflow i16: a panic when overflow is checked. *)
IterOverflows(s, delta) == s.kind # "Zeroed" /\ ~FitsI16(s.d + delta)

(***************************************************************************)
(* arithmetic_loop_pass.                                                   *)
(***************************************************************************)
(* The search for `end`: the first bracket at or after index j; -1 = None. *)
RECURSIVE FindEnd(_, _)
FindEnd(ins, j) ==
    IF j >= Len(ins) THEN -1
    ELSE IF ins[j + 1].op = "JumpZ" THEN -1
    ELSE IF ins[j + 1].op = "JumpNz" THEN j
    ELSE FindEnd(ins, j + 1)

AnalysisInit ==
    [offset |-> 0, num_arith |-> 0, iteration_diff |-> Diff(0),
     abort |-> FALSE, overflow |-> FALSE]

(* One arm of the first `for inst in inner` loop.  An i16 overflow panics   *)
(* when overflow is checked and wraps otherwise: `overflow` remembers it.  *)
AnalyzeOne(s, inst) ==
    IF s.abort THEN s
    ELSE CASE inst.op = "Shl" ->
                [s EXCEPT !.offset = WrapI16(@ - WrapI16(inst.a)),
                          !.overflow = @ \/ ~FitsI16(s.offset - WrapI16(inst.a))]
           [] inst.op = "Shr" ->
                [s EXCEPT !.offset = WrapI16(@ + WrapI16(inst.a)),
                          !.overflow = @ \/ ~FitsI16(s.offset + WrapI16(inst.a))]
           [] inst.op = "Inc" ->
                IF s.offset = 0
                THEN [s EXCEPT !.iteration_diff = IterInc(@, inst.a),
                               !.overflow = @ \/ IterOverflows(s.iteration_diff, inst.a)]
                ELSE [s EXCEPT !.num_arith = @ + 1]
           [] inst.op = "Dec" ->
                IF s.offset = 0
                THEN [s EXCEPT !.iteration_diff = IterDec(@, inst.a),
                               !.overflow = @ \/ IterOverflows(s.iteration_diff, -inst.a)]
                ELSE [s EXCEPT !.num_arith = @ + 1]
           [] inst.op = "Zero" ->
                IF WrapI16(s.offset + inst.a) = 0
                THEN [s EXCEPT !.iteration_diff = IterZero(@),
                               !.overflow = @ \/ ~FitsI16(s.offset + inst.a)]
                ELSE [s EXCEPT !.num_arith = @ + 1,
                               !.overflow = @ \/ ~FitsI16(s.offset + inst.a)]
           [] OTHER -> [s EXCEPT !.abort = TRUE]

RECURSIVE Analyze(_, _, _)
Analyze(s, inner, k) ==
    IF k > Len(inner) THEN s ELSE Analyze(AnalyzeOne(s, inner[k]), inner, k + 1)

(* One arm of the second `for inst in inner.iter()` loop: s = [offset, out]. *)
RewriteOne(s, inst) ==
    CASE inst.op = "Shl" -> [s EXCEPT !.offset = WrapI16(@ - WrapI16(inst.a))]
      [] inst.op = "Shr" -> [s EXCEPT !.offset = WrapI16(@ + WrapI16(inst.a))]
      [] inst.op = "Inc" ->
            IF s.offset # 0
            THEN [s EXCEPT !.out = Append(@,
                     IF inst.a = 1 THEN Add(s.offset) ELSE AddMul(s.offset, inst.a))]
            ELSE s
      [] inst.op = "Dec" ->
            IF s.offset # 0
            THEN [s EXCEPT !.out = Append(@,
                     IF inst.a = 1 THEN Sub(s.offset) ELSE AddMul(s.offset, -inst.a))]
            ELSE s
      [] inst.op = "Zero" ->
            IF WrapI16(s.offset + inst.a) # 0
            THEN [s EXCEPT !.out = Append(@, Zero(WrapI16(s.offset + inst.a)))]
            ELSE s
      [] OTHER -> s

RECURSIVE Rewrite(_, _, _)
Rewrite(s, inner, k) ==
    IF k > Len(inner) THEN s ELSE Rewrite(RewriteOne(s, inner[k]), inner, k + 1)

(* Faulty variant: the rewrite forgets the final Zero(0). *)
ReplacementsNoZero(inner) ==
    Rewrite([offset |-> 0, out |-> <<>>], inner, 1).out

Replacements(inner) ==
    Append(Rewrite([offset |-> 0, out |-> <<>>], inner, 1).out, Zero(0))

(* Which summaries let the pass go on to the rewrite. *)
IsCopyLoop(d) == d = Diff(-1)

(* Which summaries print the infinite-loop warning. *)
IsWarned(d) == d.kind = "ZeroedDiff" /\ d.d # 0

(* The whole function: the new vector, the warning printed (a sequence of  *)
(* at most one range <<start - 1, end + 1>>), and whether it panicked.     *)
Unchanged(ins) == [ins |-> ins, warn |-> <<>>, panic |-> FALSE]

arithmetic_loop_pass(ins, k) ==
    IF ins[k + 1].op # "JumpZ" THEN Unchanged(ins)
    ELSE LET start == k + 1
             end == FindEnd(ins, start)
         IN  IF end = -1 THEN Unchanged(ins)
             ELSE LET inner == SubSeq(ins, start + 1, end)
                      s == Analyze(AnalysisInit, inner, 1)
                  IN  IF s.overflow /\ overflow_checks
                      THEN [ins |-> ins, warn |-> <<>>, panic |-> TRUE]
                      ELSE IF s.abort \/ s.offset # 0 THEN Unchanged(ins)
                      ELSE IF IsCopyLoop(s.iteration_diff)
                      THEN [ins |-> Splice(ins, start - 1, end + 1, Replacements(inner)),
                            warn |-> <<>>, panic |-> FALSE]
                      ELSE IF IsWarned(s.iteration_diff)
                      THEN [ins |-> ins, warn |-> <<<<start - 1, end + 1>>>>,
                            panic |-> FALSE]
                      ELSE Unchanged(ins)

(***************************************************************************)
(* The jump linker: one iteration of the `for (i, instruction)` loop.      *)
(* s = [ins, stack, ok]; ok = FALSE is the unreachable!() panic.           *)
(***************************************************************************)
(* Faulty variant: the targets are the partner's index, not the index after it. *)
LinkOneOff(s, k) ==
    CASE s.ins[k + 1].op = "JumpZ" -> [s EXCEPT !.stack = Append(@, k)]
      [] s.ins[k + 1].op = "JumpNz" ->
            IF s.stack = <<>> THEN [s EXCEPT !.ok = FALSE]
            ELSE LET opening_idx == s.stack[Len(s.stack)]
                 IN  [s EXCEPT !.ins[k + 1].a = opening_idx,
                               !.ins[opening_idx + 1].a = k,
                               !.stack = SubSeq(@, 1, Len(@) - 1)]
      [] OTHER -> s

(* Faulty variant: a JumpNz goes back to its JumpZ, not past it. *)
LinkOneBack(s, k) ==
    CASE s.ins[k + 1].op = "JumpZ" -> [s EXCEPT !.stack = Append(@, k)]
      [] s.ins[k + 1].op = "JumpNz" ->
            IF s.stack = <<>> THEN [s EXCEPT !.ok = FALSE]
            ELSE LET opening_idx == s.stack[Len(s.stack)]
                 IN  [s EXCEPT !.ins[k + 1].a = opening_idx,
                               !.ins[opening_idx + 1].a = k + 1,
                               !.stack = SubSeq(@, 1, Len(@) - 1)]
      [] OTHER -> s

LinkOne(s, k) ==
    CASE s.ins[k + 1].op = "JumpZ" -> [s EXCEPT !.stack = Append(@, k)]
      [] s.ins[k + 1].op = "JumpNz" ->
            IF s.stack = <<>> THEN [s EXCEPT !.ok = FALSE]
            ELSE LET opening_idx == s.stack[Len(s.stack)]
                 IN  [s EXCEPT !.ins[k + 1].a = opening_idx + 1,
                               !.ins[opening_idx + 1].a = k + 1,
                               !.stack = SubSeq(@, 1, Len(@) - 1)]
      [] OTHER -> s

RECURSIVE LinkFrom(_, _)
LinkFrom(s, k) ==
    IF ~s.ok \/ k >= Len(s.ins) THEN s ELSE LinkFrom(LinkOne(s, k), k + 1)

(* Faulty variant: a residual stack is not reported. *)
LinkFinishLax(stack) == "run"

(* The final `if !par_stack.is_empty() { unreachable!(..) }`. *)
LinkFinish(stack) == IF stack = <<>> THEN "run" ELSE "mismatched"

(* The whole linker. *)
LinkAll(ins) ==
    LET s == LinkFrom([ins |-> ins, stack |-> <<>>, ok |-> TRUE], 0)
    IN  [s EXCEPT !.ok = @ /\ LinkFinish(s.stack) = "run"]

(***************************************************************************)
(* run: the tape and one iteration of the interpreter loop.  A machine is  *)
(* [ip, rp, registers, inpos, stdout, st].  rp is a usize: its value is    *)
(* kept as the signed residue modulo 2^64, so a pointer that wrapped below *)
(* zero (overflow unchecked) is negative here and is outside the tape.     *)
(***************************************************************************)
EmptyTape == [k \in {} |-> 0]

Reg(r, k) == IF k \in DOMAIN r THEN r[k] ELSE 0

SetReg(r, k, v) ==
    IF v = 0 THEN [j \in DOMAIN r \ {k} |-> r[j]]
    ELSE [j \in DOMAIN r \cup {k} |-> IF j = k THEN v ELSE r[j]]

(* Faulty variant: a tape of 2^15 cells. *)
InTapeLarger(k) == k >= 0 /\ k < 2^15

(* The bounds check of registers[k] *)
InTape(k) == k >= 0 /\ k < NUM_REGISTERS

MachineInit ==
    [ip |-> 0, rp |-> 0, registers |-> EmptyTape, inpos |-> 0,
     stdout |-> <<>>, st |-> "running"]

Panic(m) == [m EXCEPT !.st = "panic"]

(* Faulty variant: the addition saturates at 255 instead of wrapping. *)
saturating_add(x, n) == IF x + n > 255 THEN 255 ELSE x + n

(* u8::wrapping_add / u8::wrapping_sub *)
wrapping_add(x, n) == WrapU8(x + n)
wrapping_sub(x, n) == WrapU8(x - n)

Store(m, k, v) == [m EXCEPT !.registers = SetReg(@, k, v), !.ip = @ + 1]

(* Faulty variant: the product saturates in i16 instead of wrapping. *)
MulValSaturating(n, v) ==
    WrapU8(IF n * v > 32767 THEN 32767 ELSE IF n * v < -32768 THEN -32768 ELSE n * v)

(* The multiplication of AddMul: n.wrapping_mul(registers[rp] as i16) as u8 *)
MulVal(n, v) == WrapU8(WrapI16(n * v))

Exec(prog, m, inp, oc) ==
    IF m.ip >= Len(prog) THEN [m EXCEPT !.st = "done"]
    ELSE
    LET b == prog[m.ip + 1]
        cur == Reg(m.registers, m.rp)
        t == m.rp + b.a
    IN  CASE b.op = "Shl" ->
                IF oc /\ m.rp - b.a < 0 THEN Panic(m)
                ELSE [m EXCEPT !.rp = @ - b.a, !.ip = @ + 1]
          [] b.op = "Shr" -> [m EXCEPT !.rp = @ + b.a, !.ip = @ + 1]
          [] b.op = "Inc" ->
                IF ~InTape(m.rp) THEN Panic(m)
                ELSE Store(m, m.rp, wrapping_add(cur, b.a))
          [] b.op = "Dec" ->
                IF ~InTape(m.rp) THEN Panic(m)
                ELSE Store(m, m.rp, wrapping_sub(cur, b.a))
          [] b.op = "Output" ->
                IF ~InTape(m.rp) THEN Panic(m)
                ELSE [m EXCEPT !.stdout = Append(@, cur), !.ip = @ + 1]
          [] b.op = "Input" ->
                IF ~InTape(m.rp) THEN Panic(m)
                ELSE IF m.inpos < Len(inp)
                THEN [Store(m, m.rp, inp[m.inpos + 1]) EXCEPT !.inpos = @ + 1]
                ELSE [m EXCEPT !.ip = @ + 1]
          [] b.op = "JumpZ" ->
                IF ~InTape(m.rp) THEN Panic(m)
                ELSE IF cur = 0 THEN [m EXCEPT !.ip = b.a]
                ELSE [m EXCEPT !.ip = @ + 1]
          [] b.op = "JumpNz" ->
                IF ~InTape(m.rp) THEN Panic(m)
                ELSE IF cur > 0 THEN [m EXCEPT !.ip = b.a]
                ELSE [m EXCEPT !.ip = @ + 1]
          [] b.op = "Zero" ->
                IF ~InTape(t) THEN Panic(m) ELSE Store(m, t, 0)
          [] b.op = "Add" ->
                IF ~InTape(m.rp) \/ ~InTape(t) THEN Panic(m)
                ELSE Store(m, t, wrapping_add(Reg(m.registers, t), cur))
          [] b.op = "Sub" ->
                IF ~InTape(m.rp) \/ ~InTape(t) THEN Panic(m)
                ELSE Store(m, t, wrapping_sub(Reg(m.registers, t), cur))
          [] b.op = "AddMul" ->
                IF ~InTape(m.rp) \/ ~InTape(t) THEN Panic(m)
                ELSE Store(m, t, wrapping_add(Reg(m.registers, t), MulVal(b.b, cur)))

(* The model's cut: a run is followed only while its footprint is small. *)
WithinBounds(m) ==
    /\ Cardinality(DOMAIN m.registers) <= MaxCells
    /\ Len(m.stdout) <= MaxOut

Step(prog, m, inp, oc) ==
    IF m.st # "running" THEN m
    ELSE LET n == Exec(prog, m, inp, oc)
         IN  IF WithinBounds(n) THEN n ELSE [m EXCEPT !.st = "cut"]

(***************************************************************************)
(* The state machine: main() from the combiner to run().                   *)
(***************************************************************************)
Machine ==
    [ip |-> ip, rp |-> rp, registers |-> registers, inpos |-> inpos,
     stdout |-> stdout, st |-> "running"]

(* The reference run: the unoptimized IR, linked.  A specification that    *)
(* does not compare against it starts with ref.m.st = "off".               *)
RefInit(ins) ==
    LET l == LinkAll(ins)
    IN  IF ref.m.st = "off" THEN ref
        ELSE [ins |-> l.ins, m |-> [MachineInit EXCEPT
                                 !.st = IF l.ok THEN "running" ELSE "mismatched"]]

RefStep == [ref EXCEPT !.m = Step(ref.ins, @, input, overflow_checks)]

Terminal == {"done", "panic", "mismatched", "overflow", "cut"}

Blank ==
    /\ i = 0
    /\ par_stack = <<>>
    /\ warnings = <<>>
    /\ ip = 0
    /\ rp = 0
    /\ registers = EmptyTape
    /\ inpos = 0
    /\ stdout = <<>>

(* The combiner.  `tokens` is not read again after it (but for its length *)
(* in a verbose message), so the model drops the list here; the reference  *)
(* run keeps the combined source.                                          *)
CombineStep ==
    /\ pc = "combine"
    /\ instructions' = Combine(tokens)
    /\ ref' = RefInit(Combine(tokens))
    /\ pc' = "zero"
    /\ i' = 0
    /\ tokens' = <<>>
    /\ UNCHANGED <<par_stack, warnings, ip, rp, registers, input,
                   inpos, stdout, overflow_checks>>

ZeroLoopStep ==
    /\ pc = "zero"
    /\ ZeroLoopGuard(instructions, i)
    /\ instructions' = ZeroLoopBody(instructions, i)
    /\ i' = i + 1
    /\ UNCHANGED <<tokens, pc, par_stack, warnings, ip, rp, registers, input,
                   inpos, stdout, overflow_checks, ref>>

ZeroLoopDone ==
    /\ pc = "zero"
    /\ ~ZeroLoopGuard(instructions, i)
    /\ pc' = "arith"
    /\ i' = 0
    /\ UNCHANGED <<tokens, instructions, par_stack, warnings, ip, rp, registers,
                   input, inpos, stdout, overflow_checks, ref>>

ArithStep ==
    /\ pc = "arith"
    /\ i < Len(instructions)
    /\ LET r == arithmetic_loop_pass(instructions, i)
       IN  /\ instructions' = r.ins
           /\ warnings' = warnings \o r.warn
           /\ pc' = IF r.panic THEN "overflow" ELSE "arith"
           /\ i' = IF r.panic THEN i ELSE i + 1
    /\ UNCHANGED <<tokens, par_stack, ip, rp, registers, input, inpos, stdout,
                   overflow_checks, ref>>

ArithDone ==
    /\ pc = "arith"
    /\ i >= Len(instructions)
    /\ pc' = "link"
    /\ i' = 0
    /\ UNCHANGED <<tokens, instructions, par_stack, warnings, ip, rp, registers,
                   input, inpos, stdout, overflow_checks, ref>>

LinkStep ==
    /\ pc = "link"
    /\ i < Len(instructions)
    /\ LET s == LinkOne([ins |-> instructions, stack |-> par_stack, ok |-> TRUE], i)
       IN  /\ instructions' = s.ins
           /\ par_stack' = s.stack
           /\ pc' = IF s.ok THEN "link" ELSE "mismatched"
           /\ i' = IF s.ok THEN i + 1 ELSE i
    /\ UNCHANGED <<tokens, warnings, ip, rp, registers, input, inpos, stdout,
                   overflow_checks, ref>>

LinkDone ==
    /\ pc = "link"
    /\ i >= Len(instructions)
    /\ pc' = LinkFinish(par_stack)
    /\ UNCHANGED <<tokens, instructions, i, par_stack, warnings, ip, rp,
                   registers, input, inpos, stdout, overflow_checks, ref>>

(* One iteration of run's loop; the reference run moves in step with it. *)
RunStep ==
    /\ pc = "run"
    /\ LET n == Step(instructions, Machine, input, overflow_checks)
       IN  /\ ip' = n.ip
           /\ rp' = n.rp
           /\ registers' = n.registers
           /\ inpos' = n.inpos
           /\ stdout' = n.stdout
           /\ pc' = IF n.st = "running" THEN "run" ELSE n.st
    /\ ref' = RefStep
    /\ UNCHANGED <<tokens, instructions, i, par_stack, warnings, input,
                   overflow_checks>>

(* The reference run goes on after the optimized program stopped. *)
RefRun ==
    /\ pc \in Terminal
    /\ ref.m.st = "running"
    /\ ref' = RefStep
    /\ UNCHANGED <<tokens, instructions, pc, i, par_stack, warnings, ip, rp,
                   registers, input, inpos, stdout, overflow_checks>>

Next ==
    \/ CombineStep
    \/ ZeroLoopStep
    \/ ZeroLoopDone
    \/ ArithStep
    \/ ArithDone
    \/ LinkStep
    \/ LinkDone
    \/ RunStep
    \/ RefRun

(* The same without a reference run. *)
NextMain ==
    \/ CombineStep
    \/ ZeroLoopStep
    \/ ZeroLoopDone
    \/ ArithStep
    \/ ArithDone
    \/ LinkStep
    \/ LinkDone
    \/ RunStep

Start(srcs, ins, refst) ==
    /\ tokens \in srcs
    /\ input \in ins
    /\ overflow_checks \in BOOLEAN
    /\ pc = "combine"
    /\ instructions = <<>>
    /\ ref = [ins |-> <<>>, m |-> [MachineInit EXCEPT !.st = refst]]
    /\ Blank

(***************************************************************************)
(* Spec: every short source, and a list of longer ones, on a few inputs.   *)
(***************************************************************************)
ShortSources == UNION {[1..n -> Tokens] : n \in 0..MaxLen}

LongSources ==
    { <<"[", "-", ">", "+", "<", "]">>,
      <<"[", "-", ">", "+", "+", "+", "<", "]">>,
      <<",", "[", ".", ",", "]">>,
      <<"+", "[", "+", "]">>,
      <<"+", "+", "+", "+", "[", "-", "]", "+", "+", "+">>,
      <<">", "+", "<", "[", "-", ">", "[", "-", "]", "<", "]", ">", ".">>,
      <<"+", "+", "[", "-", ">", "[", "-", "]", "+", "<", "]", ">", ".">>,
      <<"+", "+", "[", "-", ">", "+", "+", "<", "]", ">", ".">>,
      <<"+", "[", "-", "<", "+", ">", "]">>,
      <<"[", "-", "<", "+", ">", "]">>,
      <<"[", ".", "]">>,
      <<"+", "[", "[", "-", "]", "]", ".">>,
      <<"+", "[", ">", "+", "[", "-", "]", "<", "-", "]">>,
      <<"[", "[", ".", "]", "]">>,
      <<",", "[", "[", ".", "-", "]", ",", "]">>,
      <<"[", "-", "]", "[">>,
      <<"]", "[", "-", ">", "+", "<", "]">>,
      <<"[", "[", "-", ">", "+", "<", "]">> }

Sources == ShortSources \cup LongSources

Inputs == { <<>>, <<97, 98, 99>> }

Init == Start(Sources, Inputs, "running")

Spec == Init /\ [][Next]_vars

(***************************************************************************)
(* SpecTerm: sources of one cell that loop on wrapping arithmetic.  The    *)
(* process is a single thread that keeps running, hence the fairness.      *)
(***************************************************************************)
PlusLoop == <<"+", "[", "+", "]">>

TermSources ==
    { PlusLoop,
      <<"-", "[", "-", "]">>,
      <<"+", "[", "-", "]">>,
      <<"-", "[", "+", "]">>,
      <<"+", "+", "+", "[", "-", "-", "-", "]">> }

InitTerm == Start(TermSources, {<<>>}, "running")

SpecTerm == InitTerm /\ [][Next]_vars /\ WF_vars(Next)

(***************************************************************************)
(* SpecLoop: one loop entered at cell 1 with chosen contents of the cells  *)
(* 0, 1 (the induction cell) and 2.  The loop bodies are those of at most  *)
(* MaxBody atoms (a token, or `[-]`) that return the pointer and take 1    *)
(* from the induction cell in each iteration.                              *)
(***************************************************************************)
Rep(t, n) == [k \in 1..n |-> t]

Atoms == {"-", "+", ">", "<", "Z"}

AtomTokens(a) == IF a = "Z" THEN <<"[", "-", "]">> ELSE <<a>>

RECURSIVE Flatten(_, _)
Flatten(body, k) ==
    IF k > Len(body) THEN <<>> ELSE AtomTokens(body[k]) \o Flatten(body, k + 1)

AtomShift(a) == IF a = ">" THEN 1 ELSE IF a = "<" THEN -1 ELSE 0

RECURSIVE AtomOffset(_, _)
AtomOffset(body, k) ==
    IF k <= 1 THEN 0 ELSE AtomOffset(body, k - 1) + AtomShift(body[k - 1])

RECURSIVE OriginDiff(_, _)
OriginDiff(body, k) ==
    IF k > Len(body) THEN 0
    ELSE (IF AtomOffset(body, k) # 0 THEN 0
          ELSE IF body[k] = "+" THEN 1
          ELSE IF body[k] = "-" THEN -1
          ELSE 0) + OriginDiff(body, k + 1)

IsCopyBody(body) ==
    /\ AtomOffset(body, Len(body) + 1) = 0
    /\ OriginDiff(body, 1) = -1
    /\ \A k \in 1..Len(body) : body[k] = "Z" => AtomOffset(body, k) # 0

CopyBodies ==
    {body \in UNION {[1..n -> Atoms] : n \in 1..MaxBody} : IsCopyBody(body)}

TapePrefix(left, c, right) ==
    Rep("+", left) \o <<">", ">">> \o Rep("+", right) \o <<"<">> \o Rep("+", c)

LoopSource(left, c, right, body) ==
    TapePrefix(left, c, right) \o <<"[">> \o Flatten(body, 1) \o <<"]">>

LoopSources ==
    {LoopSource(left, c, right, body) :
        left \in {0, 2}, c \in {0, 1, 2, 3}, right \in {0, 5}, body \in CopyBodies}

InitLoop == Start(LoopSources, {<<>>}, "running")

SpecLoop == InitLoop /\ [][Next]_vars

(***************************************************************************)
(* SpecMul: a multiply loop entered at cell 2, which adds (`+`) or takes   *)
(* (`-`) n times the induction cell to or from the cell at offset o.  No   *)
(* reference run.                                                          *)
(***************************************************************************)
Multipliers == (2..MaxMul) \cup {127, 128, 255, 256}

CellValues == {0, 1, 2, 3, 128, 129, 255}

Offsets == {-2, -1, 1, 2}

Go(o) == IF o > 0 THEN Rep(">", o) ELSE Rep("<", -o)

MulSource(o, sign, n, v, w) ==
    Rep("+", v) \o Go(o) \o Rep("+", w) \o Go(-o)
        \o <<"[", "-">> \o Go(o) \o Rep(sign, n) \o Go(-o) \o <<"]">>

MulSources ==
    {<<">", ">">> \o MulSource(o, sign, n, v, w) :
        o \in Offsets, sign \in {"+", "-"}, n \in Multipliers,
        v \in CellValues, w \in {0, 1, 255}}

InitMul == Start(MulSources, {<<>>}, "off")

SpecMul == InitMul /\ [][NextMain]_vars

(***************************************************************************)
(* SpecTape: sources that move right to a cell near the end of the tape    *)
(* and then read or write that cell.                                       *)
(***************************************************************************)
ClaimedCells == 2^15

TapeStops ==
    {NUM_REGISTERS - 2, NUM_REGISTERS - 1, NUM_REGISTERS, NUM_REGISTERS + 1,
     ClaimedCells - 1, ClaimedCells}

Accesses ==
    { <<"+">>, <<"-">>, <<".">>, <<",">>, <<"[", "]">>,
      <<"+", "[", "-", "]">>, <<"+", "[", ".", "-", "]">> }

TapeSources == {Rep(">", n) \o acc : n \in TapeStops, acc \in Accesses}

InitTape == Start(TapeSources, {<<7>>}, "running")

SpecTape == InitTape /\ [][Next]_vars

(***************************************************************************)
(* SpecZeroed: one loop entered at cell 1 whose body clears the induction  *)
(* cell (`[-]` at offset 0) and returns the pointer: bodies of fewer than  *)
(* MaxBody atoms, bodies that add to the cleared cell in two runs of 256   *)
(* tokens together, and a body that shifts by 2^16.  No reference run.     *)
(***************************************************************************)
IsZeroedBody(body) ==
    /\ AtomOffset(body, Len(body) + 1) = 0
    /\ \E k \in 1..Len(body) : body[k] = "Z" /\ AtomOffset(body, k) = 0

ZeroedBodies ==
    {body \in UNION {[1..n -> Atoms] : n \in 1..(MaxBody - 1)} : IsZeroedBody(body)}

SplitRun(sign, n) ==
    <<"[", "-", "]">> \o Rep(sign, n) \o <<">", "<">> \o Rep(sign, 256 - n)

(* A body whose shifts sum to 2^16, which the pass's i16 offset takes for 0. *)
WideShift ==
    <<"[", "-", "]">> \o Rep(">", 65535) \o <<"<", ">", ">">>

ZeroedSources ==
    {TapePrefix(left, c, 0) \o <<"[">> \o Flatten(body, 1) \o <<"]">> :
        left \in {0, 2}, c \in {0, 1, 3}, body \in ZeroedBodies}
    \cup
    {TapePrefix(0, c, 0) \o <<"[">> \o SplitRun(sign, n) \o <<"]">> :
        c \in {0, 1}, sign \in {"+", "-"}, n \in {128, 255}}
    \cup
    {TapePrefix(0, c, 0) \o <<"[">> \o WideShift \o <<"]">> : c \in {0, 1}}

InitZeroed == Start(ZeroedSources, {<<>>}, "off")

SpecZeroed == InitZeroed /\ [][NextMain]_vars

(***************************************************************************)
(* Definitions the properties are stated with.                             *)
(***************************************************************************)
Linked == pc \in {"run", "done", "panic", "cut"}

IsBracket(x) == x.op \in {"JumpZ", "JumpNz"}

IsPrefix(s, t) == Len(s) <= Len(t) /\ SubSeq(t, 1, Len(s)) = s

(* Bracket nesting of a token list: the depth after each token, -1 once a  *)
(* `]` had no open `[`.                                                    *)
RECURSIVE TokenDepth(_, _)
TokenDepth(toks, n) ==
    IF n = 0 THEN 0
    ELSE LET d == TokenDepth(toks, n - 1)
         IN  IF d < 0 THEN -1
             ELSE IF toks[n] = "[" THEN d + 1
             ELSE IF toks[n] = "]" THEN d - 1
             ELSE d

Balanced(toks) == TokenDepth(toks, Len(toks)) = 0

RECURSIVE InsDepth(_, _)
InsDepth(ins, n) ==
    IF n = 0 THEN 0
    ELSE LET d == InsDepth(ins, n - 1)
         IN  IF d < 0 THEN -1
             ELSE IF ins[n].op = "JumpZ" THEN d + 1
             ELSE IF ins[n].op = "JumpNz" THEN d - 1
             ELSE d

BalancedIns(ins) == InsDepth(ins, Len(ins)) = 0

(* The execution is that of source src. *)
Runs(src) ==
    IF pc = "combine" THEN tokens = src ELSE ref.ins = LinkAll(Combine(src)).ins

(* The brackets of the source are balanced. *)
SourceBalanced ==
    IF pc = "combine" THEN Balanced(tokens) ELSE BalancedIns(ref.ins)

(* The partner of the JumpZ at 0-based index j by nesting: the first later *)
(* JumpNz at which the depth counted from j returns to 0; -1 if none.      *)
RECURSIVE CloseFrom(_, _, _)
CloseFrom(ins, k, d) ==
    IF k >= Len(ins) THEN -1
    ELSE IF ins[k + 1].op = "JumpZ" THEN CloseFrom(ins, k + 1, d + 1)
    ELSE IF ins[k + 1].op = "JumpNz"
         THEN (IF d = 1 THEN k ELSE CloseFrom(ins, k + 1, d - 1))
    ELSE CloseFrom(ins, k + 1, d)

MatchClose(ins, j) == CloseFrom(ins, j + 1, 1)

(* The partner of the JumpNz at 0-based index j: the JumpZ it closes. *)
MatchOpen(ins, j) ==
    IF \E k \in 0..(j - 1) : ins[k + 1].op = "JumpZ" /\ MatchClose(ins, k) = j
    THEN CHOOSE k \in 0..(j - 1) : ins[k + 1].op = "JumpZ" /\ MatchClose(ins, k) = j
    ELSE -1

(***************************************************************************)
(* C1.  For every bracket-balanced program and every stdin on which the    *)
(* unoptimized IR (combine + link) terminates, the IR of the zero-loop     *)
(* pass, the arithmetic-loop pass and the linker also terminates and has   *)
(* written exactly the same bytes.                                         *)
(***************************************************************************)
C1_OptimizedRunEqualsReference ==
    (ref.m.st = "done" /\ pc \in {"done", "panic", "mismatched", "overflow"})
        => (pc = "done" /\ stdout = ref.m.stdout)

(***************************************************************************)
(* C2.  For every loop the arithmetic-loop pass rewrites, every tape and   *)
(* every value of the induction cell including 0, the tape and the cell    *)
(* pointer after the replacement equal those after the original loop, also *)
(* when the body holds a Zero at a nonzero offset before or after an       *)
(* Inc/Dec of the same cell.                                               *)
(***************************************************************************)
LoopRewritten == SelectSeq(instructions, IsBracket) = <<>>

C2_ReplacementEqualsLoop ==
    (pc = "done" /\ ref.m.st = "done" /\ LoopRewritten) =>
        (registers = ref.m.registers /\ rp = ref.m.rp)

(***************************************************************************)
(* C3.  A loop with summary Diff(-1) and net offset 0 is replaced, over    *)
(* the inclusive range [i, end], by an Add(offset) for each Inc(1) and an  *)
(* AddMul(offset, n) for each Inc(n), n >= 2, at a nonzero offset, in body *)
(* order, followed by exactly one final Zero(0), with no bracket left; the *)
(* final IR of `[->+<]` is Add(1), Zero(0) and that of `[->+++<]` is       *)
(* AddMul(1, 3), Zero(0).                                                  *)
(***************************************************************************)
ShiftOf(inst) ==
    IF inst.op = "Shr" THEN inst.a ELSE IF inst.op = "Shl" THEN -inst.a ELSE 0

RECURSIVE OffsetBefore(_, _)
OffsetBefore(body, k) ==
    IF k <= 1 THEN 0 ELSE OffsetBefore(body, k - 1) + ShiftOf(body[k - 1])

RECURSIVE IncImages(_, _)
IncImages(body, k) ==
    IF k > Len(body) THEN <<>>
    ELSE LET o == OffsetBefore(body, k)
             here == IF body[k].op = "Inc" /\ o # 0 /\ body[k].a >= 1
                     THEN <<IF body[k].a = 1 THEN Add(o) ELSE AddMul(o, body[k].a)>>
                     ELSE <<>>
         IN  here \o IncImages(body, k + 1)

IsPositiveAdd(x) == x.op = "Add" \/ (x.op = "AddMul" /\ x.b > 0)

RewritableAt(ins, k) ==
    /\ k < Len(ins)
    /\ ins[k + 1].op = "JumpZ"
    /\ FindEnd(ins, k + 1) # -1
    /\ LET s == Analyze(AnalysisInit, SubSeq(ins, k + 2, FindEnd(ins, k + 1)), 1)
       IN  ~s.abort /\ ~s.overflow /\ s.offset = 0 /\ s.iteration_diff = Diff(-1)

C3_RewriteStep ==
    (pc = "arith" /\ RewritableAt(instructions, i)) =>
        LET end == FindEnd(instructions, i + 1)
            body == SubSeq(instructions, i + 2, end)
            tail == Len(instructions) - (end + 1)
            new == SubSeq(instructions', i + 1, Len(instructions') - tail)
        IN  /\ Len(new) >= 1
            /\ SelectSeq(new, IsPositiveAdd) = IncImages(body, 1)
            /\ new[Len(new)] = Zero(0)
            /\ Len(SelectSeq(new, LAMBDA x : x = Zero(0))) = 1
            /\ SelectSeq(new, IsBracket) = <<>>

CopyLoop == <<"[", "-", ">", "+", "<", "]">>
MulLoop == <<"[", "-", ">", "+", "+", "+", "<", "]">>

C3_Examples ==
    Linked => /\ Runs(CopyLoop) => instructions = <<Add(1), Zero(0)>>
              /\ Runs(MulLoop) => instructions = <<AddMul(1, 3), Zero(0)>>

C3_CopyLoopRewritten == [][C3_RewriteStep]_vars /\ []C3_Examples

C3_Witness ==
    /\ Runs(MulLoop)
    /\ pc = "done"
    /\ instructions = <<AddMul(1, 3), Zero(0)>>

(***************************************************************************)
(* C4.  `,[.,]` on stdin `abc` then end of input writes exactly `abc` and  *)
(* then terminates; it never writes a fourth byte.                         *)
(***************************************************************************)
Echo == <<",", "[", ".", ",", "]">>
Abc == <<97, 98, 99>>

C4_EchoWritesAbcAndStops ==
    (Runs(Echo) /\ input = Abc) =>
        /\ IsPrefix(stdout, Abc)
        /\ pc = "done" => stdout = Abc

(***************************************************************************)
(* C5.  As claimed: `+[+]` never terminates, the interpreter never gets    *)
(* past the end of the instruction list.                                   *)
(***************************************************************************)
C5_PlusLoopNeverTerminates ==
    Runs(PlusLoop) => ~(pc \in {"run", "done"} /\ ip >= Len(instructions))

(* C5, amended.  `+[+]` terminates: the cell wraps from 255 to 0, the     *)
(* JumpNz then falls through, and the interpreter leaves the program with  *)
(* every cell 0 and nothing written.                                       *)
C5_PlusLoopTerminates ==
    (tokens = PlusLoop /\ pc = "combine")
        ~> (pc = "done" /\ ip = 4 /\ registers = EmptyTape /\ stdout = <<>>)

C5_Witness ==
    /\ Runs(PlusLoop)
    /\ pc = "run"
    /\ ip = 3
    /\ Reg(registers, 0) = 0

(***************************************************************************)
(* C6.  After the linker, every JumpZ at index j has as target t the index *)
(* after the JumpNz that matches it by nesting, and that JumpNz has target *)
(* j + 1; every JumpNz has as target the index after its matching JumpZ;   *)
(* the nesting depth is 0 at the end of the program.                       *)
(***************************************************************************)
WellLinked(ins) ==
    /\ BalancedIns(ins)
    /\ \A j \in 0..(Len(ins) - 1) :
          /\ ins[j + 1].op = "JumpZ" =>
                LET t == ins[j + 1].a
                IN  /\ t >= 1 /\ t <= Len(ins)
                    /\ ins[t].op = "JumpNz"
                    /\ t - 1 = MatchClose(ins, j)
                    /\ ins[t].a = j + 1
          /\ ins[j + 1].op = "JumpNz" =>
                /\ MatchOpen(ins, j) # -1
                /\ ins[j + 1].a = MatchOpen(ins, j) + 1

C6_LinkedJumpsArePaired ==
    /\ Linked => WellLinked(instructions)
    /\ ref.m.st # "mismatched" /\ pc # "combine" => WellLinked(ref.ins)

C6_Witness ==
    /\ pc = "run"
    /\ Runs(<<",", "[", "[", ".", "-", "]", ",", "]">>)
    /\ instructions[2] = JumpZ(8)
    /\ instructions[3] = JumpZ(6)

(***************************************************************************)
(* C7.  The linker fails with mismatched brackets if and only if the `[`   *)
(* and `]` of the source are not balanced: the passes remove brackets only *)
(* as matched pairs and emit none; on failure nothing is executed.         *)
(***************************************************************************)
C7_MismatchIffUnbalanced ==
    /\ pc = "mismatched" => ~SourceBalanced
    /\ Linked => SourceBalanced
    /\ pc \in {"zero", "arith", "link"} =>
          (BalancedIns(instructions) <=> SourceBalanced)
    /\ pc = "mismatched" =>
          ip = 0 /\ rp = 0 /\ registers = EmptyTape /\ inpos = 0 /\ stdout = <<>>

C7_Witness ==
    /\ Runs(<<"[", "-", "]", "[">>)
    /\ pc = "mismatched"
    /\ instructions = <<Zero(0), JumpZ(0)>>

(***************************************************************************)
(* C8.  For every multiplier k the optimizer emits, every entry value v of *)
(* the current cell, every target value w and every nonzero offset o,      *)
(* executing AddMul(o, k) leaves cell[ptr + o] = (w + k * v) mod 256,      *)
(* which is what k applications of Add(o) (|k| of Sub(o) for a negative k) *)
(* with cell[ptr] held at v give; no other cell and no pointer changes.    *)
(***************************************************************************)
(* inst executed n times in a row from machine m, by halves: the test of   *)
(* h.ip, which is always 0, has the first half evaluated before the second. *)
RECURSIVE Repeated(_, _, _)
Repeated(inst, m, n) ==
    IF n = 0 THEN m
    ELSE IF n = 1 THEN [Exec(<<inst>>, m, <<>>, FALSE) EXCEPT !.ip = 0]
    ELSE LET h == Repeated(inst, m, n \div 2)
         IN  IF h.ip = 0 THEN Repeated(inst, h, n - (n \div 2)) ELSE h

AtAddMul ==
    pc = "run" /\ ip < Len(instructions) /\ instructions[ip + 1].op = "AddMul"

C8_AddMulStep ==
    (AtAddMul /\ pc' = "run") =>
        LET o == instructions[ip + 1].a
            k == instructions[ip + 1].b
            v == Reg(registers, rp)
            w == Reg(registers, rp + o)
            m == [Machine EXCEPT !.ip = 0]
        IN  /\ o # 0
            /\ Reg(registers', rp + o) = (w + k * v) % 256
            /\ registers' = SetReg(registers, rp + o, (w + k * v) % 256)
            /\ registers' = (IF k >= 0 THEN Repeated(Add(o), m, k)
                                       ELSE Repeated(Sub(o), m, -k)).registers
            /\ rp' = rp
            /\ ip' = ip + 1

C8_AddMulIsRepeatedAdd == [][C8_AddMulStep]_vars

C8_Witness ==
    /\ pc = "run"
    /\ ip >= 1
    /\ instructions[ip] = AddMul(1, -255)
    /\ Reg(registers, rp) = 255
    /\ Reg(registers, rp + 1) = 0

(***************************************************************************)
(* C9.  As claimed: the tape has 32768 cells, so no access faults while    *)
(* the pointer is in 0..32767.                                             *)
(***************************************************************************)
C9_TapeHas32768Cells ==
    /\ (pc = "run" /\ ip = 0) => (rp = 0 /\ registers = EmptyTape)
    /\ pc = "panic" => ~(rp >= 0 /\ rp < ClaimedCells)

(* C9, amended.  The tape has 30000 cells with the pointer starting at     *)
(* index 0 and all cells 0: every pointer position in 0..29999 is a valid  *)
(* cell, so a program that moves right to cell 29999 and reads or writes   *)
(* it executes without a fault, while an access at position 30000 or       *)
(* beyond (cell 32767 included) panics.                                    *)
C9_TapeHas30000Cells ==
    /\ (pc = "run" /\ ip = 0) => (rp = 0 /\ registers = EmptyTape)
    /\ pc = "panic" => ~(rp >= 0 /\ rp < NUM_REGISTERS)
    /\ pc = "done" => (rp >= 0 /\ rp < NUM_REGISTERS)
    /\ \A k \in DOMAIN registers : k >= 0 /\ k < NUM_REGISTERS

C9_Witness ==
    /\ pc = "done"
    /\ rp = NUM_REGISTERS - 1
    /\ Reg(registers, rp) = 1
    /\ instructions = <<Shr(NUM_REGISTERS - 1), Inc(1)>>

(***************************************************************************)
(* C10.  When a JumpZ is reached after a prefix of only Shl, Shr, Inc,     *)
(* Dec, Zero, Add, Sub, AddMul that leaves the current cell statically 0   *)
(* (for example a loop that opens the program, `[.]`), the final IR holds  *)
(* neither that JumpZ, nor its JumpNz, nor anything between them.          *)
(***************************************************************************)
IsStatic(x) ==
    x.op \in {"Shl", "Shr", "Inc", "Dec", "Zero", "Add", "Sub", "AddMul"}

RECURSIVE AfterPrefix(_, _, _)
AfterPrefix(ins, n, oc) ==
    IF n = 0 THEN MachineInit ELSE Exec(ins, AfterPrefix(ins, n - 1, oc), <<>>, oc)

StaticallyDeadAt(ins, j, oc) ==
    /\ ins[j + 1].op = "JumpZ"
    /\ \A k \in 1..j : IsStatic(ins[k])
    /\ LET m == AfterPrefix(ins, j, oc)
       IN  m.st = "running" /\ InTape(m.rp) /\ Reg(m.registers, m.rp) = 0

C10_DeadLoopsAreRemoved ==
    Linked => \A j \in 0..(Len(instructions) - 1) :
                 ~StaticallyDeadAt(instructions, j, overflow_checks)

(***************************************************************************)
(* C11.  For every token sequence the combiner's output holds no two       *)
(* adjacent instructions that are both Shl, both Shr, both Inc or both     *)
(* Dec, and every token that is not combinable (Output, Input, LSquare,    *)
(* RSquare) maps to exactly one instruction, in order.                     *)
(***************************************************************************)
IsCombined(x) == x.op \in {"Shl", "Shr", "Inc", "Dec"}

NoAdjacentSameKind(ins) ==
    \A k \in 1..(Len(ins) - 1) :
        IsCombined(ins[k]) => ins[k + 1].op # ins[k].op

RECURSIVE SingleImages(_, _)
SingleImages(toks, k) ==
    IF k > Len(toks) THEN <<>>
    ELSE (IF toks[k] = "." THEN <<Output>>
          ELSE IF toks[k] = "," THEN <<Input>>
          ELSE IF toks[k] = "[" THEN <<JumpZ(0)>>
          ELSE IF toks[k] = "]" THEN <<JumpNz(0)>>
          ELSE <<>>) \o SingleImages(toks, k + 1)

C11_CombineStep ==
    pc = "combine" =>
        /\ NoAdjacentSameKind(instructions')
        /\ SelectSeq(instructions', LAMBDA x : ~IsCombined(x))
              = SingleImages(tokens, 1)

C11_CombinerMergesRuns == [][C11_CombineStep]_vars

C11_Witness ==
    /\ pc = "zero"
    /\ i = 0
    /\ instructions = <<Inc(2), Output>>

(***************************************************************************)
(* C12.  A Zero of the replacement whose offset is not 0 clears its cell   *)
(* only if the induction cell was not 0 at loop entry: entered with the    *)
(* induction cell 0 and x # 0 in that cell, the cell still holds x after   *)
(* the replacement.  The replacement writes the induction cell only with   *)
(* its last instruction, so the current cell at such a Zero is the entry   *)
(* value.                                                                  *)
(***************************************************************************)
AtOffsetZero ==
    /\ pc = "run"
    /\ ip < Len(instructions)
    /\ instructions[ip + 1].op = "Zero"
    /\ instructions[ip + 1].a # 0

C12_OffsetZeroStep ==
    (AtOffsetZero /\ Reg(registers, rp) = 0) =>
        LET t == rp + instructions[ip + 1].a
        IN  Reg(registers', t) = Reg(registers, t)

C12_OffsetZeroIsGuarded == [][C12_OffsetZeroStep]_vars

(***************************************************************************)
(* C13.  After the zero-loop pass alone no contiguous triple JumpZ,        *)
(* Dec(1), JumpNz remains: every occurrence, at every position including   *)
(* the last three instructions of the program, has been replaced by one    *)
(* Zero(0) and all other instructions are kept in order.  `++++[-]+++`     *)
(* yields Inc(4), Zero(0), Inc(3).                                         *)
(***************************************************************************)
IsTripleAt(ins, k) ==
    /\ k + 2 <= Len(ins)
    /\ ins[k].op = "JumpZ"
    /\ ins[k + 1] = Dec(1)
    /\ ins[k + 2].op = "JumpNz"

RECURSIVE ZeroAllFrom(_, _)
ZeroAllFrom(ins, k) ==
    IF k > Len(ins) THEN <<>>
    ELSE IF IsTripleAt(ins, k) THEN <<Zero(0)>> \o ZeroAllFrom(ins, k + 3)
    ELSE <<ins[k]>> \o ZeroAllFrom(ins, k + 1)

(* The instructions with the jump targets as the combiner leaves them. *)
Unlinked(ins) ==
    [k \in 1..Len(ins) |-> IF IsBracket(ins[k]) THEN [ins[k] EXCEPT !.a = 0]
                           ELSE ins[k]]

AfterZeroPass == pc = "arith" /\ i = 0

ClearSource == <<"+", "+", "+", "+", "[", "-", "]", "+", "+", "+">>

C13_ZeroPassLeavesNoTriple ==
    AfterZeroPass =>
        /\ \A k \in 1..Len(instructions) : ~IsTripleAt(instructions, k)
        /\ instructions = ZeroAllFrom(Unlinked(ref.ins), 1)
        /\ Runs(ClearSource) => instructions = <<Inc(4), Zero(0), Inc(3)>>

(***************************************************************************)
(* C14.  For every loop that passes the shape, permitted-instruction and   *)
(* net-motion checks and whose induction summary is Diff(0) or             *)
(* ZeroedDiff(d) with d # 0, the arithmetic-loop pass emits exactly one    *)
(* infinite-loop warning for that loop and leaves the instruction list     *)
(* unchanged.                                                              *)
(***************************************************************************)
(* The loop that opens at index k has no inner bracket, only permitted     *)
(* instructions and net motion 0.                                          *)
PassesChecks(ins, k) ==
    /\ k < Len(ins)
    /\ ins[k + 1].op = "JumpZ"
    /\ FindEnd(ins, k + 1) # -1
    /\ LET s == Analyze(AnalysisInit, SubSeq(ins, k + 2, FindEnd(ins, k + 1)), 1)
       IN  ~s.abort /\ ~s.overflow /\ s.offset = 0

SummaryAt(ins, k) ==
    Analyze(AnalysisInit, SubSeq(ins, k + 2, FindEnd(ins, k + 1)), 1).iteration_diff

NeverEnds(d) == d = Diff(0) \/ (d.kind = "ZeroedDiff" /\ d.d # 0)

C14_WarnStep ==
    (/\ pc = "arith"
     /\ PassesChecks(instructions, i)
     /\ NeverEnds(SummaryAt(instructions, i))) =>
        /\ instructions' = instructions
        /\ warnings' = Append(warnings, <<i, FindEnd(instructions, i + 1) + 1>>)

C14_EndlessLoopsAreWarned == [][C14_WarnStep]_vars

(***************************************************************************)
(* C15.  Whenever the arithmetic-loop pass emits an infinite-loop warning  *)
(* for a loop, that loop never terminates once entered: the interpreter    *)
(* never gets past the loop's JumpNz, also when the summary's 16-bit sum d *)
(* is a nonzero multiple of 256, as for the body Zero(0), Inc(128),        *)
(* Shr(1), Shl(1), Inc(128).                                               *)
(***************************************************************************)
AtJumpNz ==
    pc = "run" /\ ip < Len(instructions) /\ instructions[ip + 1].op = "JumpNz"

(* The JumpNz at ip closes a loop the pass warned about: a warning names   *)
(* the half-open index range of its loop, which no later rewrite moves.    *)
AtWarnedJumpNz ==
    AtJumpNz /\ \E w \in 1..Len(warnings) : warnings[w][2] = ip + 1

C15_WarnedStep == AtWarnedJumpNz => ip' # ip + 1

C15_WarnedLoopsNeverEnd == [][C15_WarnedStep]_vars

(***************************************************************************)
(* C16.  For every loop that passes the shape, permitted-instruction and   *)
(* net-motion checks and whose induction summary is Zeroed or              *)
(* ZeroedDiff(0), the pass does not rewrite the body, and in every         *)
(* execution the current cell is 0 whenever the interpreter reaches the    *)
(* loop's trailing JumpNz, so the body runs at most once per entry.        *)
(***************************************************************************)
ZeroedLoopAt(ins, k) ==
    /\ k >= 0
    /\ PassesChecks(ins, k)
    /\ SummaryAt(ins, k) \in {Zeroed, ZeroedDiff(0)}

(* The JumpNz at ip closes such a loop; its target is one past the JumpZ. *)
AtZeroedJumpNz ==
    /\ AtJumpNz
    /\ ZeroedLoopAt(instructions, instructions[ip + 1].a - 1)
    /\ FindEnd(instructions, instructions[ip + 1].a) = ip

C16_PassStep ==
    (pc = "arith" /\ ZeroedLoopAt(instructions, i)) => instructions' = instructions

C16_RunStep ==
    (AtZeroedJumpNz /\ InTape(rp)) =>
        /\ Reg(registers, rp) = 0
        /\ pc' = "run"
        /\ ip' = ip + 1

C16_ZeroedLoopsRunOnce == [][C16_PassStep /\ C16_RunStep]_vars

C16_Witness ==
    /\ AtZeroedJumpNz
    /\ SummaryAt(instructions, instructions[ip + 1].a - 1) = Zeroed
    /\ Reg(registers, rp + 1) = 1
    /\ Reg(registers, rp - 1) = 2

(***************************************************************************)
(* C17.  In every step of the interpreter on a linked program: a JumpZ     *)
(* executed with current cell 0 sets ip to the index of its matching       *)
(* JumpNz plus 1; a JumpNz executed with current cell not 0 sets ip to the *)
(* index of its matching JumpZ plus 1; a jump whose condition is false and *)
(* every other instruction set ip to ip + 1; jumps change neither the tape *)
(* nor the cell pointer; execution halts exactly when ip is at or past the *)
(* number of instructions.  A step that panics or that the model cuts is   *)
(* not a step of the program.                                              *)
(***************************************************************************)
C17_InterpreterStep ==
    (pc = "run" /\ pc' \in {"run", "done"}) =>
        IF ip >= Len(instructions)
        THEN pc' = "done" /\ ip' = ip /\ rp' = rp /\ registers' = registers
        ELSE LET b == instructions[ip + 1]
                 cur == Reg(registers, rp)
             IN  /\ pc' = "run"
                 /\ IsBracket(b) => (rp' = rp /\ registers' = registers)
                 /\ ip' = IF b.op = "JumpZ" /\ cur = 0
                          THEN MatchClose(instructions, ip) + 1
                          ELSE IF b.op = "JumpNz" /\ cur # 0
                          THEN MatchOpen(instructions, ip) + 1
                          ELSE ip + 1

C17_JumpsGoPastTheirPartner == [][C17_InterpreterStep]_vars

C17_Witness ==
    /\ pc = "run"
    /\ Runs(<<",", "[", "[", ".", "-", "]", ",", "]">>)
    /\ ip = 3
    /\ Len(stdout) = 1
    /\ Reg(registers, rp) = 96

(***************************************************************************)
(* C18.  For every maximal run of L >= 1 identical combinable tokens, of   *)
(* any length including L >= 256 for `+`/`-` and L >= 65536 for `<`/`>`,   *)
(* every Inc/Dec the combiner emits has a count in 1..255 and every        *)
(* Shl/Shr a count in 1..65535, and the counts emitted for the run sum to  *)
(* L: written out again count by count, the instructions give the tokens.  *)
(***************************************************************************)
CountInRange(x) ==
    /\ x.op \in {"Inc", "Dec"} => (x.a >= 1 /\ x.a <= 255)
    /\ x.op \in {"Shl", "Shr"} => (x.a >= 1 /\ x.a <= 65535)

TokenOf(x) ==
    CASE x.op = "Shl" -> "<"
      [] x.op = "Shr" -> ">"
      [] x.op = "Inc" -> "+"
      [] x.op = "Dec" -> "-"
      [] x.op = "Output" -> "."
      [] x.op = "Input" -> ","
      [] x.op = "JumpZ" -> "["
      [] x.op = "JumpNz" -> "]"

RECURSIVE WrittenOut(_, _)
WrittenOut(ins, k) ==
    IF k > Len(ins) THEN <<>>
    ELSE Rep(TokenOf(ins[k]), IF IsCombined(ins[k]) THEN ins[k].a ELSE 1)
            \o WrittenOut(ins, k + 1)

C18_CombineStep ==
    pc = "combine" =>
        /\ \A k \in 1..Len(instructions') : CountInRange(instructions'[k])
        /\ WrittenOut(instructions', 1) = tokens

C18_CountsArePositive == [][C18_CombineStep]_vars

(***************************************************************************)
(* C19.  In the IR after all optimization passes every AddMul has a        *)
(* multiplier >= 2: a change of magnitude 1 per iteration is an Add or a   *)
(* Sub, and a decrement of n >= 2 at a nonzero offset has multiplier n,    *)
(* never a zero or negative multiplier.                                    *)
(***************************************************************************)
AfterPasses == pc \notin {"combine", "zero", "arith", "overflow"}

C19_MultipliersAtLeastTwo ==
    AfterPasses =>
        \A k \in 1..Len(instructions) :
            instructions[k].op = "AddMul" => instructions[k].b >= 2

(***************************************************************************)
(* C20.  Optimization never introduces an out-of-bounds tape access: for   *)
(* every program and input on which the unoptimized IR runs to completion  *)
(* inside the tape, the optimized IR runs without reading or writing an    *)
(* index outside the tape, as for `[-<+>]`, which is skipped at pointer 0. *)
(* A panic of the interpreter at an instruction other than Shl is the      *)
(* bounds check of a tape access.                                          *)
(***************************************************************************)
OutOfBoundsAccess ==
    pc = "panic" /\ ip < Len(instructions) /\ instructions[ip + 1].op # "Shl"

C20_NoNewOutOfBoundsAccess == ref.m.st = "done" => ~OutOfBoundsAccess

(***************************************************************************)
(* C21.  arithmetic_loop_pass(i) changes nothing outside the loop it       *)
(* rewrites.  When it aborts (instruction i is not a JumpZ, a nested JumpZ *)
(* precedes the first JumpNz, no JumpNz follows, the body holds Output,    *)
(* Input, Add, Sub or AddMul, the net offset is not 0, or the summary is   *)
(* not Diff(-1)) the instruction list is the same before and after; when   *)
(* it rewrites, the instructions before index i and after index end are    *)
(* unchanged and keep their order.                                         *)
(***************************************************************************)
HasForbidden(body) ==
    \E k \in 1..Len(body) :
        body[k].op \in {"Output", "Input", "Add", "Sub", "AddMul", "JumpZ", "JumpNz"}

(* None of the reasons to abort holds for the call at index k. *)
RewritesAt(ins, k) ==
    /\ ins[k + 1].op = "JumpZ"
    /\ FindEnd(ins, k + 1) # -1
    /\ LET body == SubSeq(ins, k + 2, FindEnd(ins, k + 1))
       IN  /\ ~HasForbidden(body)
           /\ OffsetBefore(body, Len(body) + 1) = 0
           /\ SummaryAt(ins, k) = Diff(-1)

C21_PassStep ==
    (pc = "arith" /\ i < Len(instructions)) =>
        IF RewritesAt(instructions, i)
        THEN LET end == FindEnd(instructions, i + 1)
                 tail == Len(instructions) - (end + 1)
                 n == Len(instructions')
             IN  /\ n >= i + tail
                 /\ SubSeq(instructions', 1, i) = SubSeq(instructions, 1, i)
                 /\ SubSeq(instructions', n - tail + 1, n)
                       = SubSeq(instructions, end + 2, Len(instructions))
        ELSE instructions' = instructions

C21_PassKeepsTheRest == [][C21_PassStep]_vars

C21_Witness ==
    /\ pc = "arith"
    /\ i = 2
    /\ Runs(<<"+", "+", "[", "-", ">", "+", "+", "<", "]", ">", ".">>)
    /\ instructions = <<Inc(2), AddMul(1, 2), Zero(0), Shr(1), Output>>

====
